---- MODULE Spec2Model ----
(***************************************************************************)
(* Model of scripts/transcribe.py: the timestamp formatter, the SubRip and *)
(* WebVTT serializers, the output-path policy, and the transcribe / main   *)
(* control flow around the external Whisper model and the file system.     *)
(*                                                                         *)
(* Strings are sequences of one-character strings.  A Python float is an   *)
(* IEEE-754 double: a non-negative double is held exactly, as the          *)
(* little-endian bit sequence of the natural N with value N / 2^FracBits,  *)
(* and every float operation the code performs rounds to MantissaBits      *)
(* significant bits, ties to even.                                         *)
(***************************************************************************)
EXTENDS Integers, Sequences, FiniteSets

\* ------------------------------------------------------------------------
\* Bounds of the model
\* ------------------------------------------------------------------------

\* Fractional bits of the fixed-point carrier of a double (2^-FracBits is
\* finer than the last mantissa bit of every double >= 1/1000 used here).
FracBits == 64

\* An input timestamp is a whole number of 1/2^TickBits seconds.
TickBits == 4

\* Longest segment sequence handed to a serializer.
MaxSegs == 2

\* Significand width of a Python float (IEEE-754 binary64).
MantissaBits == 53

\* ------------------------------------------------------------------------
\* Natural numbers as little-endian bit sequences
\* ------------------------------------------------------------------------

RECURSIVE Pow2(_)
Pow2(n) == IF n = 0 THEN 1 ELSE 2 * Pow2(n - 1)

Zeros(n) == [i \in 1..n |-> 0]

\* b without its leading (most significant) zero bits
Trim(b) ==
    LET ones == {i \in 1..Len(b) : b[i] = 1}
    IN  IF ones = {} THEN <<>>
        ELSE SubSeq(b, 1, CHOOSE i \in ones : \A j \in ones : j <= i)

\* The bits of a natural n < 2^31
NatToBits(n) == Trim([j \in 1..31 |-> (n \div Pow2(j - 1)) % 2])

\* The value of at most 30 bits
RECURSIVE BitsFrom(_, _)
BitsFrom(b, i) == IF i > Len(b) THEN 0 ELSE b[i] + 2 * BitsFrom(b, i + 1)

BitsToNat(b) == BitsFrom(b, 1)

\* b + 1
Inc(b) ==
    LET zeros == {i \in 1..Len(b) : b[i] = 0}
        z     == IF zeros = {} THEN Len(b) + 1
                 ELSE CHOOSE i \in zeros : \A j \in zeros : i <= j
    IN  [i \in 1..(IF z > Len(b) THEN z ELSE Len(b)) |->
            IF i < z THEN 0 ELSE IF i = z THEN 1 ELSE b[i]]

\* The n-th 16-bit limb of b (n >= 1)
Limb(b, n) ==
    BitsToNat(SubSeq(b, 16 * (n - 1) + 1,
                     IF 16 * n <= Len(b) THEN 16 * n ELSE Len(b)))

\* The limbs of b * k + carry from limb n on, for a small k
RECURSIVE MulLimbs(_, _, _, _)
MulLimbs(b, k, n, carry) ==
    IF 16 * (n - 1) >= Len(b) THEN <<carry>>
    ELSE LET t == Limb(b, n) * k + carry
         IN  <<t % 65536>> \o MulLimbs(b, k, n + 1, t \div 65536)

\* b * k + carry, for a small k
MulSmall(b, k, carry) ==
    LET limbs == MulLimbs(b, k, 1, carry)
    IN  Trim([j \in 1..(16 * Len(limbs)) |->
                (limbs[((j - 1) \div 16) + 1] \div Pow2((j - 1) % 16)) % 2])

\* ------------------------------------------------------------------------
\* Doubles
\* ------------------------------------------------------------------------

\* Round to nearest, ties to even, to MantissaBits significant bits.
\* sticky: the exact value has a non-zero part below the last bit of b0.
RoundSig(b0, sticky) ==
    LET b == Trim(b0)
        L == Len(b)
    IN  IF L <= MantissaBits THEN b
        ELSE LET drop  == L - MantissaBits
                 guard == b[drop]
                 rest  == sticky \/ \E i \in 1..(drop - 1) : b[i] = 1
                 keep  == SubSeq(b, drop + 1, L)
                 up    == guard = 1 /\ (rest \/ keep[1] = 1)
             IN  Zeros(drop) \o (IF up THEN Inc(keep) ELSE keep)

\* int(x), x >= 0: truncation
IntPart(x) ==
    IF Len(x) <= FracBits THEN 0 ELSE BitsToNat(SubSeq(x, FracBits + 1, Len(x)))

\* x - int(x): exact in floating point
FracPart(x) ==
    Trim(SubSeq(x, 1, IF Len(x) <= FracBits THEN Len(x) ELSE FracBits))

\* x * k in float arithmetic for a small natural k
FloatMul(x, k) == RoundSig(MulSmall(x, k, 0), FALSE)

\* The double whole + ticks / 2^TickBits: exactly representable.
Seconds(whole, ticks) ==
    Trim(Zeros(FracBits - TickBits) \o
         NatToBits(whole * Pow2(TickBits) + ticks) )

\* ------------------------------------------------------------------------
\* Characters and decimal formatting
\* ------------------------------------------------------------------------

NL == "\n"

DigitChars == <<"0", "1", "2", "3", "4", "5", "6", "7", "8", "9">>

\* str(n)
RECURSIVE Decimal(_)
Decimal(n) ==
    IF n < 10 THEN <<DigitChars[n + 1]>>
    ELSE Decimal(n \div 10) \o <<DigitChars[(n % 10) + 1]>>

\* f"{n:0{w}d}": zero-padded to at least w digits, never truncated
ZeroPad(n, w) ==
    LET d == Decimal(n)
    IN  IF Len(d) >= w THEN d ELSE [i \in 1..(w - Len(d)) |-> "0"] \o d

\* ------------------------------------------------------------------------
\* format_timestamp
\* ------------------------------------------------------------------------

\* Mutant: the hour field wraps at one day.
Hours_wrapped(seconds) == (IntPart(seconds) \div 3600) % 24

Hours(seconds)   == IntPart(seconds) \div 3600
Minutes(seconds) == (IntPart(seconds) % 3600) \div 60
Secs(seconds)    == IntPart(seconds) % 60
Millis(seconds)  == IntPart(FloatMul(FracPart(seconds), 1000))

format_timestamp(seconds, use_comma) ==
    LET sep == IF use_comma THEN "," ELSE "."
    IN  ZeroPad(Hours(seconds), 2) \o <<":">> \o
        ZeroPad(Minutes(seconds), 2) \o <<":">> \o
        ZeroPad(Secs(seconds), 2) \o <<sep>> \o
        ZeroPad(Millis(seconds), 3)

\* ------------------------------------------------------------------------
\* Strings
\* ------------------------------------------------------------------------

None == <<>>
Some(v) == <<v>>

Whitespace == {" ", "\t", NL}

\* str.strip(): leading and trailing whitespace removed, the inside kept
Strip(s) ==
    LET solid == {i \in 1..Len(s) : s[i] \notin Whitespace}
    IN  IF solid = {} THEN <<>>
        ELSE SubSeq(s, CHOOSE i \in solid : \A j \in solid : i <= j,
                       CHOOSE i \in solid : \A j \in solid : j <= i)

\* sep.join(lines)
RECURSIVE Join(_, _)
Join(sep, lines) ==
    IF lines = <<>> THEN <<>>
    ELSE IF Len(lines) = 1 THEN lines[1]
    ELSE lines[1] \o sep \o Join(sep, Tail(lines))

Arrow == <<" ", "-", "-", ">", " ">>

WEBVTT == <<"W", "E", "B", "V", "T", "T">>

\* ------------------------------------------------------------------------
\* generate_srt, generate_vtt
\* ------------------------------------------------------------------------

\* Mutant: enumerate(segments) without its start value of 1.
SrtLines_from_zero(segs) ==
    [i \in 1..Len(segs) |->
        Decimal(i - 1) \o <<NL>> \o
        format_timestamp(segs[i].start, TRUE) \o Arrow \o
        format_timestamp(segs[i].end, TRUE) \o <<NL>> \o
        Strip(segs[i].text) \o <<NL>>]

\* The list built by the loop of generate_srt
SrtLines(segs) ==
    [i \in 1..Len(segs) |->
        Decimal(i) \o <<NL>> \o
        format_timestamp(segs[i].start, TRUE) \o Arrow \o
        format_timestamp(segs[i].end, TRUE) \o <<NL>> \o
        Strip(segs[i].text) \o <<NL>>]

generate_srt(segs) == Join(<<NL>>, SrtLines(segs))

\* Mutant: use_comma left at its default of True.
VttLines_comma(segs) ==
    <<WEBVTT \o <<NL>>>> \o
    [i \in 1..Len(segs) |->
        format_timestamp(segs[i].start, TRUE) \o Arrow \o
        format_timestamp(segs[i].end, TRUE) \o <<NL>> \o
        Strip(segs[i].text) \o <<NL>>]

\* The list built by generate_vtt: the header, then one entry per segment
VttLines(segs) ==
    <<WEBVTT \o <<NL>>>> \o
    [i \in 1..Len(segs) |->
        format_timestamp(segs[i].start, FALSE) \o Arrow \o
        format_timestamp(segs[i].end, FALSE) \o <<NL>> \o
        Strip(segs[i].text) \o <<NL>>]

generate_vtt(segs) == Join(<<NL>>, VttLines(segs))

\* ------------------------------------------------------------------------
\* Inputs
\* ------------------------------------------------------------------------

Hello == <<"H", "e", "l", "l", "o">>
World == <<"W", "o", "r", "l", "d">>

\* Whole seconds of the timestamps tried: around every field boundary,
\* and at and beyond 100 hours.
WholeSeconds ==
    {0, 1, 59, 60, 3599, 3600, 3661, 86399, 359999, 360000, 363661}

Ticks == 0..(Pow2(TickBits) - 1)

\* Segments as the external model hands them over: text may carry
\* surrounding whitespace and inner line breaks.
SegmentPool ==
    { [start |-> Seconds(0, 0), end |-> Seconds(1, Pow2(TickBits - 1)),
       text |-> Hello],
      [start |-> Seconds(1, Pow2(TickBits - 1)),
       end |-> Seconds(3, Pow2(TickBits - 2)), text |-> World],
      [start |-> Seconds(3, Pow2(TickBits - 2)), end |-> Seconds(59, 1),
       text |-> <<" ", "H", "i", " ", "y", "o", "u", NL>>],
      [start |-> Seconds(3599, 1), end |-> Seconds(360000, 3),
       text |-> <<"a", NL, "b">>],
      [start |-> Seconds(360000, 3), end |-> Seconds(363661, 3),
       text |-> <<" ", NL>>] }

RECURSIVE SeqsUpTo(_, _)
SeqsUpTo(S, n) ==
    IF n = 0 THEN {<<>>}
    ELSE LET shorter == SeqsUpTo(S, n - 1)
         IN  shorter \cup {Append(q, e) : q \in shorter, e \in S}

\* ------------------------------------------------------------------------
\* Paths (pathlib.PurePath on normalised path strings)
\* ------------------------------------------------------------------------

LastIndexOf(c, s) ==
    LET at == {i \in 1..Len(s) : s[i] = c}
    IN  IF at = {} THEN 0 ELSE CHOOSE i \in at : \A j \in at : j <= i

\* Path.name: the final component; the path "." has none
Name(p) ==
    IF p = <<".">> THEN <<>> ELSE SubSeq(p, LastIndexOf("/", p) + 1, Len(p))

\* Path.suffix: from the last dot of the name, unless that dot starts or
\* ends the name
Suffix(p) ==
    LET n == Name(p)
        j == LastIndexOf(".", n)
    IN  IF 1 < j /\ j < Len(n) THEN SubSeq(n, j, Len(n)) ELSE <<>>

\* Mutant: the new suffix appended after the old one.
with_suffix_appended(p, suffix) ==
    IF Name(p) = <<>> THEN [ok |-> FALSE, path |-> p]
    ELSE [ok |-> TRUE, path |-> p \o suffix]

\* Path.with_suffix(suffix), for a well-formed suffix: ValueError on an
\* empty name, else the old suffix (if any) replaced
with_suffix(p, suffix) ==
    IF Name(p) = <<>> THEN [ok |-> FALSE, path |-> p]
    ELSE [ok |-> TRUE,
          path |-> SubSeq(p, 1, Len(p) - Len(Suffix(p))) \o suffix]

\* ------------------------------------------------------------------------
\* Inputs of transcribe and main
\* ------------------------------------------------------------------------

FmtSrt  == <<"s", "r", "t">>
FmtVtt  == <<"v", "t", "t">>
FmtTxt  == <<"t", "x", "t">>
FmtJson == <<"j", "s", "o", "n">>
FmtXyz  == <<"x", "y", "z">>

\* The closed set of line 63-71, which is also argparse's choices (line 133)
Supported == {FmtSrt, FmtVtt, FmtTxt, FmtJson}

Formats == Supported \cup {FmtXyz}

ClipMp4 == <<"c", "l", "i", "p", ".", "m", "p", "4">>
ABMp4   == <<"a", ".", "b", ".", "m", "p", "4">>
Clip    == <<"c", "l", "i", "p">>
DotH    == <<".", "h">>
DirFile == <<"d", ".", "x", "/", "c">>
Dot     == <<".">>
OutVtt  == <<"o", "u", "t", ".", "v", "t", "t">>

InputPaths == {ClipMp4, ABMp4, Clip, DotH, DirFile, Dot}

\* --output: not given, given empty, given
Overrides == {None, Some(<<>>), Some(OutVtt)}

Media == <<"m", "e", "d", "i", "a">>
Old   == <<"o", "l", "d">>

\* What model.transcribe may return: speech, silence, and a result whose
\* segment lacks its "text" key (the serializers raise KeyError on it).
Results ==
    { [text |-> <<" ">> \o Hello \o <<" ">> \o World,
       language |-> <<"e", "n">>,
       segments |->
         << [start |-> Seconds(0, 0), end |-> Seconds(1, Pow2(TickBits - 1)),
             text |-> <<" ">> \o Hello],
            [start |-> Seconds(1, Pow2(TickBits - 1)),
             end |-> Seconds(3, Pow2(TickBits - 2)),
             text |-> <<" ">> \o World] >>],
      [text |-> <<>>, language |-> <<"e", "n">>, segments |-> <<>>],
      [text |-> Hello, language |-> <<"e", "n">>,
       segments |-> << [start |-> Seconds(0, 0), end |-> Seconds(1, 0)] >>] }

WellFormed(segs) ==
    \A i \in 1..Len(segs) : {"start", "end", "text"} \subseteq DOMAIN segs[i]

\* Stands for json.dumps(result, indent=2): a document fixed by the result.
JsonDump(r) ==
    <<"{">> \o r.language \o <<":">> \o r.text \o <<":">> \o
    Decimal(Len(r.segments)) \o <<"}">>

\* ------------------------------------------------------------------------
\* State
\* ------------------------------------------------------------------------

VARIABLES
    whole, ticks, use_comma,   \* format_timestamp: the arguments
    stamp,                     \* format_timestamp: the returned string
    segments,                  \* generate_srt / generate_vtt: the argument
    srt, vtt,                  \* their returned documents
    entry,                     \* "main": the command line; "api": a call
    whisper,                   \* whether `import whisper` succeeds
    input_file, output_path, output_format,   \* the arguments of transcribe
    files,                     \* the file system: path -> content
    files0,                    \* the file system when the run began
    pc,                        \* the statement about to run
    out_path, result, content, \* the locals of transcribe
    error,                     \* the exception raised by transcribe
    trace,                     \* the calls made and lines printed, in order
    stderr,                    \* what was printed to standard error
    exit_code                  \* the status the process exited with

tsVars   == <<whole, ticks, use_comma, stamp>>
serVars  == <<segments, srt, vtt>>
argVars  == <<entry, whisper, input_file, output_path, output_format, files0>>
procVars == <<argVars, files, pc, out_path, result, content, error, trace,
              stderr, exit_code>>
vars     == <<tsVars, serVars, procVars>>

TsIdle == whole = 0 /\ ticks = 0 /\ use_comma = TRUE /\ stamp = None

SerIdle == segments = <<>> /\ srt = None /\ vtt = None

ProcIdle ==
    /\ entry = "api" /\ whisper = TRUE
    /\ input_file = Clip /\ output_path = None /\ output_format = FmtSrt
    /\ files = <<>> /\ files0 = <<>>
    /\ pc = "idle"
    /\ out_path = None /\ result = None /\ content = None /\ error = None
    /\ trace = <<>> /\ stderr = None /\ exit_code = None

\* ------------------------------------------------------------------------
\* format_timestamp applied to every input
\* ------------------------------------------------------------------------

InitTs ==
    /\ whole \in WholeSeconds
    /\ ticks \in Ticks
    /\ use_comma \in BOOLEAN
    /\ stamp = None
    /\ SerIdle
    /\ ProcIdle

CallFormatTimestamp ==
    /\ stamp = None
    /\ stamp' = Some(format_timestamp(Seconds(whole, ticks), use_comma))
    /\ UNCHANGED <<whole, ticks, use_comma, serVars, procVars>>

NextTs == CallFormatTimestamp

SpecTs == InitTs /\ [][NextTs]_vars

\* ------------------------------------------------------------------------
\* The serializers applied to every segment sequence
\* ------------------------------------------------------------------------

InitSer ==
    /\ segments \in SeqsUpTo(SegmentPool, MaxSegs)
    /\ srt = None
    /\ vtt = None
    /\ TsIdle
    /\ ProcIdle

CallGenerateSrt ==
    /\ srt = None
    /\ srt' = Some(generate_srt(segments))
    /\ UNCHANGED <<segments, vtt, tsVars, procVars>>

CallGenerateVtt ==
    /\ vtt = None
    /\ vtt' = Some(generate_vtt(segments))
    /\ UNCHANGED <<segments, srt, tsVars, procVars>>

NextSer == CallGenerateSrt \/ CallGenerateVtt

SpecSer == InitSer /\ [][NextSer]_vars

\* ------------------------------------------------------------------------
\* transcribe and main
\* ------------------------------------------------------------------------

Init ==
    /\ entry \in {"main", "api"}
    /\ whisper \in BOOLEAN
    /\ input_file \in InputPaths
    /\ output_path \in Overrides
    /\ output_format \in Formats
    /\ files \in {[p \in S |-> IF p = input_file THEN Media ELSE Old] :
                    S \in SUBSET {input_file, OutVtt}}
    /\ files0 = files
    /\ pc = "import"
    /\ out_path = None /\ result = None /\ content = None /\ error = None
    /\ trace = <<>> /\ stderr = None /\ exit_code = None
    /\ TsIdle
    /\ SerIdle

\* files with path p holding content c
WriteFile(fs, p, c) ==
    [q \in DOMAIN fs \cup {p} |-> IF q = p THEN c ELSE fs[q]]

\* Exceptions: the class, the message with {} for the value it names, and
\* that value.
FileNotFoundError(path) ==
    [type |-> "FileNotFoundError", msg |-> "Input file not found: {}",
     arg |-> path]
UnsupportedFormat(fmt) ==
    [type |-> "ValueError", msg |-> "Unsupported format: {}", arg |-> fmt]
EmptyName(path) ==
    [type |-> "ValueError", msg |-> "{} has an empty name", arg |-> path]
ModelError(what) ==
    [type |-> "RuntimeError", msg |-> "{} failed", arg |-> what]
KeyError(key) == [type |-> "KeyError", msg |-> "{}", arg |-> key]
OSError(path) == [type |-> "OSError", msg |-> "cannot write {}", arg |-> path]

\* raise e: transcribe is left with e propagating to its caller
Raise(e) == error' = Some(e) /\ pc' = "raised"

\* Lines 18-24: the import at module load; a missing package ends the
\* process with status 1 before main or transcribe run.
ImportWhisper ==
    /\ pc = "import"
    /\ \/ /\ whisper
          /\ pc' = IF entry = "main" THEN "main" ELSE "start"
          /\ UNCHANGED <<trace, exit_code>>
       \/ /\ ~whisper
          /\ trace' = Append(trace, "print_not_installed")
          /\ exit_code' = Some(1)
          /\ pc' = "exited"
    /\ UNCHANGED <<argVars, files, out_path, result, content, error, stderr,
                   tsVars, serVars>>

\* Lines 116-137: argparse admits only the four formats; anything else is
\* a usage error on standard error and exit status 2.
ParseArgs ==
    /\ pc = "main"
    /\ \/ /\ output_format \in Supported
          /\ pc' = "start"
          /\ UNCHANGED <<stderr, exit_code>>
       \/ /\ output_format \notin Supported
          /\ stderr' = Some([type |-> "usage", msg |-> "invalid choice: {}",
                             arg |-> output_format])
          /\ exit_code' = Some(2)
          /\ pc' = "exited"
    /\ UNCHANGED <<argVars, files, out_path, result, content, error, trace,
                   tsVars, serVars>>

\* Mutant: the existence test dropped.
CheckInput_unchecked ==
    /\ pc = "start"
    /\ trace' = Append(trace, "exists")
    /\ pc' = "resolve"
    /\ UNCHANGED <<argVars, files, out_path, result, content, error, stderr,
                   exit_code, tsVars, serVars>>

\* Lines 45-48
CheckInput ==
    /\ pc = "start"
    /\ trace' = Append(trace, "exists")
    /\ \/ /\ input_file \in DOMAIN files
          /\ pc' = "resolve"
          /\ UNCHANGED error
       \/ /\ input_file \notin DOMAIN files
          /\ Raise(FileNotFoundError(input_file))
    /\ UNCHANGED <<argVars, files, out_path, result, content, stderr,
                   exit_code, tsVars, serVars>>

\* `if output_path:` -- None and the empty string are falsy
Truthy(o) == o # None /\ o[1] # <<>>

\* Lines 50-54: a truthy override is taken as it is
ResolveOutput ==
    /\ pc = "resolve"
    /\ \/ /\ Truthy(output_path)
          /\ out_path' = Some(output_path[1])
          /\ pc' = "load"
          /\ UNCHANGED error
       \/ /\ ~Truthy(output_path)
          /\ LET r == with_suffix(input_file, <<".">> \o output_format)
             IN  \/ /\ r.ok
                    /\ out_path' = Some(r.path)
                    /\ pc' = "load"
                    /\ UNCHANGED error
                 \/ /\ ~r.ok
                    /\ Raise(EmptyName(input_file))
                    /\ UNCHANGED out_path
    /\ UNCHANGED <<argVars, files, result, content, trace, stderr, exit_code,
                   tsVars, serVars>>

\* Lines 56-57: the external model loads or fails to
LoadModel ==
    /\ pc = "load"
    /\ trace' = trace \o <<"print_loading", "load_model">>
    /\ \/ pc' = "transcribe" /\ UNCHANGED error
       \/ Raise(ModelError(<<"load_model">>))
    /\ UNCHANGED <<argVars, files, out_path, result, content, stderr,
                   exit_code, tsVars, serVars>>

\* Lines 59-60: the external transcription returns a result or fails
Transcribe ==
    /\ pc = "transcribe"
    /\ trace' = trace \o <<"print_transcribing", "transcribe">>
    /\ \/ /\ \E r \in Results : result' = Some(r)
          /\ pc' = "generate"
          /\ UNCHANGED error
       \/ /\ Raise(ModelError(<<"transcribe">>))
          /\ UNCHANGED result
    /\ UNCHANGED <<argVars, files, out_path, content, stderr, exit_code,
                   tsVars, serVars>>

\* Mutant: an unknown format falls through to the plain-text branch.
RejectUnsupported_falls_through ==
    /\ output_format \notin Supported
    /\ content' = Some(result[1].text)
    /\ pc' = "write"
    /\ UNCHANGED <<trace, error, files>>

\* Mutant: the output file is opened for writing before the format is
\* looked at.
RejectUnsupported_after_open ==
    /\ output_format \notin Supported
    /\ files' = WriteFile(files, out_path[1], <<>>)
    /\ Raise(UnsupportedFormat(output_format))
    /\ UNCHANGED <<trace, content>>

\* Lines 72-73: the else branch
RejectUnsupported ==
    /\ output_format \notin Supported
    /\ Raise(UnsupportedFormat(output_format))
    /\ UNCHANGED <<trace, content, files>>

\* Lines 62-73: the if / elif chain over output_format
GenerateOutput ==
    /\ pc = "generate"
    /\ \/ /\ output_format = FmtSrt
          /\ trace' = Append(trace, "generate_srt")
          /\ \/ /\ WellFormed(result[1].segments)
                /\ content' = Some(generate_srt(result[1].segments))
                /\ pc' = "write"
                /\ UNCHANGED error
             \/ /\ ~WellFormed(result[1].segments)
                /\ Raise(KeyError(<<"text">>))
                /\ UNCHANGED content
          /\ UNCHANGED files
       \/ /\ output_format = FmtVtt
          /\ trace' = Append(trace, "generate_vtt")
          /\ \/ /\ WellFormed(result[1].segments)
                /\ content' = Some(generate_vtt(result[1].segments))
                /\ pc' = "write"
                /\ UNCHANGED error
             \/ /\ ~WellFormed(result[1].segments)
                /\ Raise(KeyError(<<"text">>))
                /\ UNCHANGED content
          /\ UNCHANGED files
       \/ /\ output_format = FmtTxt
          /\ content' = Some(result[1].text)
          /\ pc' = "write"
          /\ UNCHANGED <<trace, error, files>>
       \/ /\ output_format = FmtJson
          /\ trace' = Append(trace, "json.dumps")
          /\ content' = Some(JsonDump(result[1]))
          /\ pc' = "write"
          /\ UNCHANGED <<error, files>>
       \/ RejectUnsupported
    /\ UNCHANGED <<argVars, out_path, result, stderr, exit_code,
                   tsVars, serVars>>

\* Lines 75-76: write_text opens the file for writing and writes the whole
\* string; it may fail before the file is opened, or after, leaving a
\* truncated file behind.
WriteOutput ==
    /\ pc = "write"
    /\ trace' = Append(trace, "write_text")
    /\ \/ /\ files' = WriteFile(files, out_path[1], content[1])
          /\ pc' = "print"
          /\ UNCHANGED error
       \/ /\ Raise(OSError(out_path[1]))
          /\ UNCHANGED files
       \/ /\ files' = WriteFile(files, out_path[1],
                                SubSeq(content[1], 1, Len(content[1]) \div 2))
          /\ Raise(OSError(out_path[1]))
    /\ UNCHANGED <<argVars, out_path, result, content, stderr, exit_code,
                   tsVars, serVars>>

\* Lines 77-79
PrintOutput ==
    /\ pc = "print"
    /\ trace' = trace \o <<"print_output_written", "return">>
    /\ pc' = "returned"
    /\ UNCHANGED <<argVars, files, out_path, result, content, error, stderr,
                   exit_code, tsVars, serVars>>

\* Lines 139-145 and the end of main: transcribe returned
MainReturn ==
    /\ entry = "main"
    /\ pc = "returned"
    /\ exit_code' = Some(0)
    /\ pc' = "exited"
    /\ UNCHANGED <<argVars, files, out_path, result, content, error, trace,
                   stderr, tsVars, serVars>>

\* Mutant: the handler prints the error and forgets sys.exit(1).
MainExcept_no_exit ==
    /\ entry = "main"
    /\ pc = "raised"
    /\ stderr' = Some(error[1])
    /\ exit_code' = Some(0)
    /\ pc' = "exited"
    /\ UNCHANGED <<argVars, files, out_path, result, content, error, trace,
                   tsVars, serVars>>

\* Lines 146-148
MainExcept ==
    /\ entry = "main"
    /\ pc = "raised"
    /\ stderr' = Some(error[1])
    /\ exit_code' = Some(1)
    /\ pc' = "exited"
    /\ UNCHANGED <<argVars, files, out_path, result, content, error, trace,
                   tsVars, serVars>>

Next ==
    \/ ImportWhisper
    \/ ParseArgs
    \/ CheckInput
    \/ ResolveOutput
    \/ LoadModel
    \/ Transcribe
    \/ GenerateOutput
    \/ WriteOutput
    \/ PrintOutput
    \/ MainReturn
    \/ MainExcept

Spec == Init /\ [][Next]_vars

\* ------------------------------------------------------------------------
\* Reading a timestamp back
\* ------------------------------------------------------------------------

IsDigit(c) == \E d \in 0..9 : DigitChars[d + 1] = c

DigitVal(c) == CHOOSE d \in 0..9 : DigitChars[d + 1] = c

RECURSIVE NatOf(_)
NatOf(s) ==
    IF s = <<>> THEN 0
    ELSE 10 * NatOf(SubSeq(s, 1, Len(s) - 1)) + DigitVal(s[Len(s)])

\* t reads H..H:MM:SS<sep>mmm with at least two hour digits
TsShape(t, sep) ==
    /\ Len(t) >= 12
    /\ t[Len(t) - 3] = sep
    /\ t[Len(t) - 6] = ":"
    /\ t[Len(t) - 9] = ":"
    /\ \A i \in 1..Len(t) :
          i \notin {Len(t) - 3, Len(t) - 6, Len(t) - 9} => IsDigit(t[i])

Fields(t) ==
    [h  |-> NatOf(SubSeq(t, 1, Len(t) - 10)),
     m  |-> NatOf(SubSeq(t, Len(t) - 8, Len(t) - 7)),
     s  |-> NatOf(SubSeq(t, Len(t) - 5, Len(t) - 4)),
     ms |-> NatOf(SubSeq(t, Len(t) - 2, Len(t)))]

\* 2^i mod d, by repeated squaring
RECURSIVE Pow2Mod(_, _)
Pow2Mod(i, d) ==
    IF i = 0 THEN 1 % d
    ELSE LET h  == Pow2Mod(i \div 2, d)
             sq == (h * h) % d
         IN  IF i % 2 = 0 THEN sq ELSE (2 * sq) % d

\* The first k bits of the binary expansion of r / d (r < d), and what is
\* left of the dividend after them.
DivBits(r, d, k) ==
    LET Rem(i) == (r * Pow2Mod(i, d)) % d
    IN  [bits |-> [j \in 1..k |-> (2 * Rem(k - j)) \div d], rem |-> Rem(k)]

\* n / d in float arithmetic for naturals n < d: the correctly rounded quotient
FloatDiv(n, d) ==
    LET q == DivBits(n, d, FracBits) IN RoundSig(q.bits, q.rem # 0)

\* n + f in float arithmetic, n a natural and 0 <= f < 1 a double
FloatAddInt(n, f) ==
    RoundSig(f \o Zeros(FracBits - Len(f)) \o NatToBits(n), FALSE)

\* hours*3600 + minutes*60 + seconds + millis/1000, evaluated in floats
ParseSeconds(t) ==
    LET f == Fields(t)
    IN  FloatAddInt(f.h * 3600 + f.m * 60 + f.s, FloatDiv(f.ms, 1000))

\* ------------------------------------------------------------------------
\* Claims about format_timestamp (under SpecTs)
\* ------------------------------------------------------------------------

C10_RoundTrip ==
    stamp # None =>
        format_timestamp(ParseSeconds(stamp[1]), use_comma) = stamp[1]

\* ------------------------------------------------------------------------
\* Claims about the serializers (under SpecSer)
\* ------------------------------------------------------------------------

RECURSIVE Concat(_)
Concat(blocks) ==
    IF blocks = <<>> THEN <<>> ELSE blocks[1] \o Concat(Tail(blocks))

DropLast(s) == SubSeq(s, 1, Len(s) - 1)

\* <i>\n<start> --> <end>\n<trimmed text>\n\n
SrtBlock(i, seg) ==
    Decimal(i) \o <<NL>> \o
    format_timestamp(seg.start, TRUE) \o Arrow \o
    format_timestamp(seg.end, TRUE) \o <<NL>> \o
    Strip(seg.text) \o <<NL, NL>>

SrtBlocks(segs) == [i \in 1..Len(segs) |-> SrtBlock(i, segs[i])]

\* <start> --> <end>\n<trimmed text>\n\n
VttCue(seg) ==
    format_timestamp(seg.start, FALSE) \o Arrow \o
    format_timestamp(seg.end, FALSE) \o <<NL>> \o
    Strip(seg.text) \o <<NL, NL>>

VttCues(segs) == [i \in 1..Len(segs) |-> VttCue(segs[i])]

\* {0.0, 1.5, "Hello"}, {1.5, 3.25, "World"}
ExampleSegments ==
    << [start |-> Seconds(0, 0), end |-> Seconds(1, Pow2(TickBits - 1)),
        text |-> Hello],
       [start |-> Seconds(1, Pow2(TickBits - 1)),
        end |-> Seconds(3, Pow2(TickBits - 2)), text |-> World] >>

ExampleSrtBody ==
    <<"1", NL, "0", "0", ":", "0", "0", ":", "0", "0", ",", "0", "0", "0",
        " ", "-", "-", ">", " ", "0", "0", ":", "0", "0", ":", "0", "1", ",",
        "5", "0", "0", NL, "H", "e", "l", "l", "o", NL, NL, "2", NL, "0",
        "0", ":", "0", "0", ":", "0", "1", ",", "5", "0", "0", " ", "-", "-",
        ">", " ", "0", "0", ":", "0", "0", ":", "0", "3", ",", "2", "5", "0",
        NL, "W", "o", "r", "l", "d", NL>>

ExampleVttBody ==
    <<"W", "E", "B", "V", "T", "T", NL, NL, "0", "0", ":", "0", "0", ":",
        "0", "0", ".", "0", "0", "0", " ", "-", "-", ">", " ", "0", "0", ":",
        "0", "0", ":", "0", "1", ".", "5", "0", "0", NL, "H", "e", "l", "l",
        "o", NL, NL, "0", "0", ":", "0", "0", ":", "0", "1", ".", "5", "0",
        "0", " ", "-", "-", ">", " ", "0", "0", ":", "0", "0", ":", "0", "3",
        ".", "2", "5", "0", NL, "W", "o", "r", "l", "d", NL>>

C3_EmptyVttHeader ==
    (vtt # None /\ segments = <<>>) => vtt[1] = WEBVTT \o <<NL, NL>>

\* ------------------------------------------------------------------------
\* Claims about transcribe and main (under Spec)
\* ------------------------------------------------------------------------

InTrace(e) == \E i \in 1..Len(trace) : trace[i] = e

Count(e) == Cardinality({i \in 1..Len(trace) : trace[i] = e})

\* transcribe was entered / is over
Called == InTrace("exists")
Ended  == pc \in {"raised", "returned", "exited"}

Serializers == {"generate_srt", "generate_vtt", "json.dumps"}

\* p without the last extension of its final component
StripExt(p) ==
    LET slash == LastIndexOf("/", p)
        name  == SubSeq(p, slash + 1, Len(p))
        dot   == LastIndexOf(".", name)
    IN  IF 1 < dot /\ dot < Len(name) THEN SubSeq(p, 1, slash + dot - 1)
        ELSE p

ExpectedOutPath ==
    IF output_path # None /\ output_path[1] # <<>> THEN output_path[1]
    ELSE StripExt(input_file) \o <<".">> \o output_format

NothingProduced ==
    /\ content = None
    /\ \A e \in Serializers \cup {"write_text"} : ~InTrace(e)
    /\ files = files0

BadFormatCall ==
    /\ Called /\ Ended
    /\ input_file \in DOMAIN files0
    /\ output_format \notin Supported

\* C6 as stated: transcribe called with an existing input and a format
\* outside {srt, vtt, txt, json} fails with the unsupported-format error
\* naming the value, before any serializer ran and before anything was
\* written.
C6_UnsupportedFormatError ==
    BadFormatCall =>
        /\ error = Some(UnsupportedFormat(output_format))
        /\ NothingProduced

\* C6 amended: such a call always fails, with no serializer run, no content
\* and no file written or changed; the failure is the unsupported-format
\* error naming the value whenever the steps that run before the format is
\* looked at (output-path resolution, model load, transcription) succeeded,
\* and the error of the first of those steps that failed otherwise.
C6_UnsupportedFormatAfterTranscription ==
    BadFormatCall =>
        /\ error # None
        /\ NothingProduced
        /\ (result # None => error = Some(UnsupportedFormat(output_format)))
        /\ (result = None => error # Some(UnsupportedFormat(output_format)))

\* C6 witness: the format xyz is rejected once the transcription returned.
C6_Witness ==
    /\ pc = "raised" /\ entry = "api" /\ output_format = FmtXyz
    /\ result # None
    /\ error = Some(UnsupportedFormat(FmtXyz))

\* The document the chosen format asks for
DocumentFor(r, fmt) ==
    IF fmt = FmtSrt THEN generate_srt(r.segments)
    ELSE IF fmt = FmtVtt THEN generate_vtt(r.segments)
    ELSE IF fmt = FmtTxt THEN r.text
    ELSE JsonDump(r)

\* C7: the output file is written at most once and only once the complete
\* document exists; when an earlier step fails (missing input, model load,
\* transcription, unsupported format, serializer) the write is never
\* reached and the file system is as it was.
C7_WriteOnceAfterDocument ==
    /\ Count("write_text") <= 1
    /\ InTrace("write_text") =>
          /\ content = Some(DocumentFor(result[1], output_format))
          /\ output_format \in Supported
    /\ files # files0 => InTrace("write_text")
    /\ (InTrace("write_text") /\ error = None) =>
          files = WriteFile(files0, out_path[1], content[1])
    /\ (error # None /\ error[1].type # "OSError") =>
          ~InTrace("write_text") /\ files = files0

\* C7 witness: a serializer failure with an older out.vtt on disk, which is
\* left as it was.
C7_Witness ==
    /\ pc = "raised" /\ error = Some(KeyError(<<"text">>))
    /\ output_path = Some(OutVtt)
    /\ OutVtt \in DOMAIN files /\ files[OutVtt] = Old

\* C8: with a missing input, transcribe fails at once with the
\* input-not-found error: one existence check, no model load, no
\* transcription, no serializer, no write.
C8_MissingInputFailsFirst ==
    (Called /\ input_file \notin DOMAIN files0) =>
        /\ pc \in {"raised", "exited"}
        /\ error = Some(FileNotFoundError(input_file))
        /\ trace = <<"exists">>
        /\ out_path = None /\ result = None /\ content = None
        /\ files = files0

\* C8 witness: transcribe raised for the missing clip.mp4.
C8_Witness ==
    /\ entry = "api" /\ pc = "raised" /\ input_file = ClipMp4
    /\ error = Some(FileNotFoundError(ClipMp4))

\* C9: main exits non-zero, with an error message, on every failure and
\* with zero exactly when transcribe returned; the output path is printed
\* if and only if the file was written, and after the write.
C9_MainExitStatus ==
    /\ (entry = "main" /\ pc = "exited") =>
          /\ exit_code # None
          /\ (exit_code = Some(0) <=> InTrace("return"))
          /\ (exit_code # Some(0) =>
                stderr # None \/ InTrace("print_not_installed"))
          /\ (error # None => exit_code = Some(1) /\ stderr = error)
          /\ (InTrace("print_output_written") <=>
                (InTrace("write_text") /\ error = None))
    /\ \A i \in 1..Len(trace) :
          trace[i] = "print_output_written" =>
             /\ \E j \in 1..(i - 1) : trace[j] = "write_text"
             /\ files = WriteFile(files0, out_path[1], content[1])

\* C9 witness: the write fails; main reports it, exits 1, prints no path.
C9_Witness ==
    /\ entry = "main" /\ pc = "exited" /\ exit_code = Some(1)
    /\ error # None /\ error[1].type = "OSError"
    /\ stderr = error
    /\ ~InTrace("print_output_written")

====
